---- MODULE Spec2Model ----
\* Model of the presentation-to-PNG conversion server (src/server/routes.ts):
\* the POST /api/convert pipeline, the image-fetch and archive endpoints and
\* the two-hour deletion timer, over a filesystem of session directories.
EXTENDS Integers, Sequences, FiniteSets, TLC

\* ------------------------------------------------------------------ bounds
\* Largest page count the rasterizer is let to produce; every count from 0
\* to it is tried.
MaxPages == 10

\* ------------------------------------------------------- strings as chars
\* A JavaScript string is modelled as a sequence of one-character strings.
\* CharOrder lists the characters in ascending UTF-16 code unit order.
CharOrder ==
  << "-", ".", "/",
     "0", "1", "2", "3", "4", "5", "6", "7", "8", "9",
     "A", "B", "C", "D", "E", "F", "G", "H", "I", "J", "K", "L", "M",
     "N", "O", "P", "Q", "R", "S", "T", "U", "V", "W", "X", "Y", "Z",
     "_",
     "a", "b", "c", "d", "e", "f", "g", "h", "i", "j", "k", "l", "m",
     "n", "o", "p", "q", "r", "s", "t", "u", "v", "w", "x", "y", "z" >>

Chars == {CharOrder[i] : i \in 1..Len(CharOrder)}

Code == [c \in Chars |-> CHOOSE i \in 1..Len(CharOrder) : CharOrder[i] = c]

DigitChars == {"0", "1", "2", "3", "4", "5", "6", "7", "8", "9"}
UpperChars == {c \in Chars : Code[c] >= Code["A"] /\ Code[c] <= Code["Z"]}
LowerChars == {c \in Chars : Code[c] >= Code["a"] /\ Code[c] <= Code["z"]}

DigitValue == [c \in DigitChars |-> Code[c] - Code["0"]]

\* String.prototype.toLowerCase on one character, then on a string.
LowerChar(c) == IF c \in UpperChars THEN CharOrder[Code[c] - Code["A"] + Code["a"]] ELSE c
ToLowerCase(s) == [i \in 1..Len(s) |-> LowerChar(s[i])]

\* String.prototype.endsWith.
EndsWith(s, suffix) ==
  /\ Len(s) >= Len(suffix)
  /\ SubSeq(s, Len(s) - Len(suffix) + 1, Len(s)) = suffix

\* The default Array.prototype.sort order: code unit by code unit, a proper
\* prefix first.
RECURSIVE StrLess(_, _)
StrLess(a, b) ==
  IF b = << >> THEN FALSE
  ELSE IF a = << >> THEN TRUE
  ELSE IF Code[Head(a)] # Code[Head(b)] THEN Code[Head(a)] < Code[Head(b)]
  ELSE StrLess(Tail(a), Tail(b))

\* String(n) for n >= 0.
RECURSIVE NumberToString(_)
NumberToString(n) ==
  IF n < 10 THEN << CharOrder[Code["0"] + n] >>
  ELSE NumberToString(n \div 10) \o << CharOrder[Code["0"] + (n % 10)] >>

\* String.prototype.padStart(width, "0").
RECURSIVE PadStart(_, _)
PadStart(s, width) == IF Len(s) >= width THEN s ELSE PadStart(<< "0" >> \o s, width)

\* a.match(/(\d+)/)?.[1] ?? "0": the first maximal run of digits, "0" if none.
FirstDigitRun(s) ==
  LET starts == {i \in 1..Len(s) : s[i] \in DigitChars}
  IN IF starts = {} THEN << "0" >>
     ELSE LET b == CHOOSE i \in starts : \A j \in starts : i <= j
              e == CHOOSE i \in b..Len(s) :
                     /\ \A j \in b..i : s[j] \in DigitChars
                     /\ (i = Len(s) \/ s[i + 1] \notin DigitChars)
          IN SubSeq(s, b, e)

\* parseInt on a string of decimal digits.
RECURSIVE ParseInt(_)
ParseInt(d) ==
  IF d = << >> THEN 0
  ELSE 10 * ParseInt(SubSeq(d, 1, Len(d) - 1)) + DigitValue[d[Len(d)]]

\* The key the conversion pipeline sorts an image file by.
SlideNum(f) == ParseInt(FirstDigitRun(f))

\* path.extname: from the last "." of the last path segment to the end; ""
\* when there is none or when it is the segment's first character.
ExtName(p) ==
  LET slashes == {i \in 1..Len(p) : p[i] = "/"}
      from == IF slashes = {} THEN 1
              ELSE 1 + CHOOSE i \in slashes : \A j \in slashes : j <= i
      base == SubSeq(p, from, Len(p))
      dots == {i \in 1..Len(base) : base[i] = "."}
      last == CHOOSE i \in dots : \A j \in dots : j <= i
  IN IF dots = {} THEN << >>
     ELSE IF \A i \in 1..(last - 1) : base[i] = "." THEN << >>
     ELSE SubSeq(base, last, Len(base))

\* ------------------------------------------------------------ file names
PRESENTATION == << "p", "r", "e", "s", "e", "n", "t", "a", "t", "i", "o", "n" >>
SLIDE == << "s", "l", "i", "d", "e" >>
DOT_PNG == << ".", "p", "n", "g" >>
DOT_PDF == << ".", "p", "d", "f" >>
DOT_PPT == << ".", "p", "p", "t" >>
DOT_PPTX == << ".", "p", "p", "t", "x" >>

\* pdfPath's file name, "presentation.pdf".
PdfName == PRESENTATION \o DOT_PDF

\* safeFilename: "presentation" + the original extension, lowercased.
SafeFilename(originalname) == PRESENTATION \o ToLowerCase(ExtName(originalname))

\* ------------------------------------------------------------ the upload
PPTX_MIME == "application/vnd.openxmlformats-officedocument.presentationml.presentation"
PPT_MIME == "application/vnd.ms-powerpoint"

\* multer's fileFilter: the declared MIME type is allowed, or the original
\* name matches /\.(pptx|ppt)$/i.
FileFilter(file) ==
  \/ file.mimetype \in {PPTX_MIME, PPT_MIME}
  \/ EndsWith(ToLowerCase(file.originalname), DOT_PPTX)
  \/ EndsWith(ToLowerCase(file.originalname), DOT_PPT)

\* The uploads tried: a .pptx, an upper-case .PPT with a foreign MIME type,
\* a .png and a .pdf that declare a presentation MIME type, and a text file.
Uploads ==
  { [mimetype |-> PPTX_MIME, originalname |-> << "d" >> \o DOT_PPTX],
    [mimetype |-> "application/octet-stream", originalname |-> << "D", ".", "P", "P", "T" >>],
    [mimetype |-> PPTX_MIME, originalname |-> << "d" >> \o DOT_PNG],
    [mimetype |-> PPT_MIME, originalname |-> << "d" >> \o DOT_PDF],
    [mimetype |-> "text/plain", originalname |-> << "d", ".", "t", "x", "t" >>] }

\* ------------------------------------------------------- session identifiers
\* randomUUID() draws from lower-case hex digits and hyphens; a short
\* identifier of that alphabet stands for the UUID of the session that is
\* followed. Sessions share no state: each has its own directory, request
\* and timer, so one session is followed from creation to deletion.
SessionIds == { << "3", "f", "-", "a" >> }

\* ------------------------------------------------- the external programs
\* What soffice may have done when its promise settles: thrown (non-zero
\* exit, timeout, missing executable), written presentation.pdf, written a
\* PDF under another name, or written nothing.
SofficeOutcomes == {"throws", "pdf", "other_pdf", "no_pdf"}
OtherPdfName == << "o", "u", "t" >> \o DOT_PDF

\* pdftoppm's output name for page k of n: "slide-" + k + ".png", k either
\* zero-padded to the width of n or written as is.
PageName(k, n, padded) ==
  SLIDE \o << "-" >>
    \o (IF padded THEN PadStart(NumberToString(k), Len(NumberToString(n)))
        ELSE NumberToString(k))
    \o DOT_PNG

PageFiles(n, padded) == {PageName(k, n, padded) : k \in 1..n}

PageCounts == 0..MaxPages

\* ------------------------------------------------------------- sorting
Min(S) == CHOOSE x \in S : \A y \in S : x <= y

\* The file names of a directory, in ascending code unit order.
RECURSIVE Ascending(_)
Ascending(S) ==
  IF S = {} THEN << >>
  ELSE LET m == CHOOSE x \in S : \A y \in S \ {x} : StrLess(x, y)
       IN << m >> \o Ascending(S \ {m})

Reverse(s) == [i \in 1..Len(s) |-> s[Len(s) + 1 - i]]

\* fs.readdirSync promises no order: both an ascending and a descending
\* listing are tried.
ReaddirSync(S) == {Ascending(S), Reverse(Ascending(S))}

\* .filter(f => f.endsWith(".png"))
IsPng(f) == EndsWith(f, DOT_PNG)
FilterPng(s) == SelectSeq(s, IsPng)

\* The comparator of convertPptxToImages: numA - numB.
LexCompare(a, b) == IF StrLess(a, b) THEN -1 ELSE IF StrLess(b, a) THEN 1 ELSE 0
NumericCompare(a, b) == SlideNum(a) - SlideNum(b)

\* Array.prototype.sort is stable: x goes before the first element it is
\* smaller than.
InsertNumeric(x, s) ==
  LET later == {i \in 1..Len(s) : NumericCompare(x, s[i]) < 0}
  IN IF later = {} THEN Append(s, x)
     ELSE SubSeq(s, 1, Min(later) - 1) \o << x >> \o SubSeq(s, Min(later), Len(s))

RECURSIVE SortNumeric(_)
SortNumeric(s) ==
  IF s = << >> THEN << >>
  ELSE InsertNumeric(s[Len(s)], SortNumeric(SubSeq(s, 1, Len(s) - 1)))

\* .sort() with no comparator, as the archive endpoint calls it.
InsertDefault(x, s) ==
  LET later == {i \in 1..Len(s) : StrLess(x, s[i])}
  IN IF later = {} THEN Append(s, x)
     ELSE SubSeq(s, 1, Min(later) - 1) \o << x >> \o SubSeq(s, Min(later), Len(s))

RECURSIVE SortDefault(_)
SortDefault(s) ==
  IF s = << >> THEN << >>
  ELSE InsertDefault(s[Len(s)], SortDefault(SubSeq(s, 1, Len(s) - 1)))

\* ------------------------------------------------------ request validation
HexHyphen == DigitChars \cup {"a", "b", "c", "d", "e", "f", "-"}
NameChars == DigitChars \cup UpperChars \cup LowerChars \cup {".", "_", "-"}

\* /^[a-f0-9-]+$/.test(sessionId)
AnySessionId(sessionId) == Len(sessionId) >= 1
ValidSessionId(sessionId) ==
  /\ Len(sessionId) >= 1
  /\ \A i \in 1..Len(sessionId) : sessionId[i] \in HexHyphen

\* /^[a-zA-Z0-9._-]+\.png$/.test(filename)
ValidFilename(filename) ==
  /\ Len(filename) >= 5
  /\ EndsWith(filename, DOT_PNG)
  /\ \A i \in 1..(Len(filename) - 4) : filename[i] \in NameChars

\* ------------------------------------------------------------- messages
\* A message is a sequence of words; a word is literal text, the path of
\* an executable, or a filesystem path (SESSIONS_DIR/sessionId[/name]).
Lit(t) == [kind |-> "lit", text |-> t]
Exe(t) == [kind |-> "exe", text |-> t]
DirPath(sessionId) == [kind |-> "path", sessionId |-> sessionId, name |-> << >>]
FilePath(sessionId, name) == [kind |-> "path", sessionId |-> sessionId, name |-> name]

SOFFICE_PATH == "/nix/store/j261ykwr6mxvai0v22sa9y6w421p30ay-libreoffice-7.6.7.2-wrapped/bin/soffice"

\* The rejection of execFile's promise: "Command failed: " + the command line.
SofficeError(sessionId, input) ==
  << Lit("Command failed:"), Exe(SOFFICE_PATH), Lit("--headless"), Lit("--norestore"),
     Lit("--nologo"), Lit("--nofirststartwizard"), Lit("--convert-to"), Lit("pdf"),
     Lit("--outdir"), DirPath(sessionId), FilePath(sessionId, input) >>

PdftoppmError(sessionId) ==
  << Lit("Command failed:"), Exe("pdftoppm"), Lit("-png"), Lit("-r"), Lit("300"),
     FilePath(sessionId, PdfName), FilePath(sessionId, SLIDE) >>

NoPdfError == << Lit("PDF conversion failed - no PDF output produced") >>
WriteError(sessionId, name) ==
  << Lit("EMFILE: too many open files, open"), FilePath(sessionId, name) >>
UnlinkError(sessionId, name) ==
  << Lit("ENOENT: no such file or directory, unlink"), FilePath(sessionId, name) >>

\* res.status(status).json({ message })
ErrorResponse(status, message) == [status |-> status, body |-> [message |-> message]]

\* The catch block of the convert handler: err.message || "Conversion failed".
CatchResponse(message) ==
  ErrorResponse(500, IF message = << >> THEN << Lit("Conversion failed") >> ELSE message)

\* ---------------------------------------------------------------- state
VARIABLES
  fs,         \* session id -> [exists, files]: the directory SESSIONS_DIR/id
  job,        \* session id -> [pc, file, started, soffice, pages]: the convert
              \* request that owns it, the programs it has started, how
              \* soffice came back (kept until pdftoppm settles)
              \* and the page images pdftoppm wrote for it
  reply,      \* session id -> the response sent to that convert request
  timers,     \* session id -> hours left on its deletion timer, -1 when none
  scheduled,  \* session id -> how many times setTimeout was called for it
  resp,       \* the last response sent by a request that owns no session
  inflight,   \* the read whose sendFile or archive stream is outstanding
  running,    \* FALSE once an uncaught exception has ended the process
  page        \* the browser page: [appState, selectedFile, result,
              \* lightboxSlide, calls], calls being its last two lightbox
              \* calls with the slide each started from

server == << fs, job, reply, timers, scheduled, resp, inflight, running >>
vars == << fs, job, reply, timers, scheduled, resp, inflight, running, page >>

\* The retention window, 2 * 60 * 60 * 1000 ms, in hours.
RetentionHours == 2

NoDir == [exists |-> FALSE, files |-> {}]
NoFile == [mimetype |-> "", originalname |-> << >>]
NoReply == [status |-> 0, body |-> [message |-> << >>]]
NoResp ==
  [endpoint |-> "none", sessionId |-> << >>, filename |-> << >>, status |-> 0,
   body |-> [message |-> << >>], fsAccess |-> {}, sessionGone |-> FALSE]
NoRead ==
  [endpoint |-> "none", sessionId |-> << >>, filename |-> << >>, entries |-> << >>,
   sessionGone |-> FALSE]

\* ----------------------------------------------------------- filesystem
\* fs.mkdirSync(sessionDir, { recursive: true })
MkdirSync(fsys, id) ==
  IF fsys[id].exists THEN fsys ELSE [fsys EXCEPT ![id] = [exists |-> TRUE, files |-> {}]]

\* fs.rmSync(sessionDir, { recursive: true, force }): [threw, fs].
KeepDir(fsys, id, force) == [threw |-> FALSE, fs |-> fsys]
RmSync(fsys, id, force) ==
  IF fsys[id].exists THEN [threw |-> FALSE, fs |-> [fsys EXCEPT ![id] = NoDir]]
  ELSE [threw |-> ~force, fs |-> fsys]

\* fs.unlinkSync(path): [threw, files]; a missing file throws ENOENT.
KeepFile(files, name) == [threw |-> name \notin files, files |-> files]
UnlinkSync(files, name) == [threw |-> name \notin files, files |-> files \ {name}]

\* fs.existsSync on a session directory and on a file in it.
DirExists(sessionId) == sessionId \in SessionIds /\ fs[sessionId].exists
AnyFileExists(sessionId, name) == TRUE
FileExists(sessionId, name) == DirExists(sessionId) /\ name \in fs[sessionId].files

\* useState<number | null>(null): the lightbox is closed.
NoSlide == 0
\* useState<ConversionResult | null>(null)
NoResult ==
  [sessionId |-> << >>, totalSlides |-> 0, originalFilename |-> << >>, slides |-> << >>]
\* The page as Home() first renders it.
NoPage ==
  [appState |-> "idle", selectedFile |-> NoFile, result |-> NoResult,
   lightboxSlide |-> NoSlide, calls |-> << >>]

\* --------------------------------------------------------------- Init
Init ==
  /\ fs = [id \in SessionIds |-> NoDir]
  /\ job = [id \in SessionIds |->
              [pc |-> "free", file |-> NoFile, started |-> << >>, soffice |-> "none",
               pages |-> << >>]]
  /\ reply = [id \in SessionIds |-> NoReply]
  /\ timers = [id \in SessionIds |-> -1]
  /\ scheduled = [id \in SessionIds |-> 0]
  /\ resp = NoResp
  /\ inflight = NoRead
  /\ running = TRUE
  /\ page = NoPage

\* ------------------------------------------------- POST /api/convert
\* The handler's end for a session: the response goes out and the request
\* is over.
Respond(id, r) ==
  /\ reply' = [reply EXCEPT ![id] = r]
  /\ job' = [job EXCEPT ![id].pc = "responded"]

\* upload.single("file") rejects the file: the handler never runs.
UploadRejected(file) ==
  /\ running
  /\ ~FileFilter(file)
  /\ resp' = [NoResp EXCEPT !.endpoint = "convert", !.status = 500,
                !.body = [message |-> << Lit("Only .pptx and .ppt files are allowed") >>]]
  /\ UNCHANGED << fs, job, reply, timers, scheduled, inflight, running, page >>

\* if (!req.file) return res.status(400)
ConvertNoFile ==
  /\ running
  /\ resp' = [NoResp EXCEPT !.endpoint = "convert", !.status = 400,
                !.body = [message |-> << Lit("No file uploaded") >>]]
  /\ UNCHANGED << fs, job, reply, timers, scheduled, inflight, running, page >>

\* From randomUUID() to the first await: mkdirSync, safeFilename,
\* writeFileSync (which may fail to open the file and throw), and soffice is
\* started.
ConvertBegin(id, file, writeOk) ==
  /\ running
  /\ FileFilter(file)
  /\ job[id].pc = "free"
  /\ LET input == SafeFilename(file.originalname)
         made == MkdirSync(fs, id)
     IN /\ IF writeOk
           THEN /\ fs' = [made EXCEPT ![id].files = made[id].files \cup {input}]
                /\ job' = [job EXCEPT ![id] = [pc |-> "soffice", file |-> file,
                                                started |-> << "soffice" >>, soffice |-> "none",
                                                pages |-> << >>]]
                /\ UNCHANGED reply
           ELSE /\ fs' = made
                /\ job' = [job EXCEPT ![id] = [pc |-> "responded", file |-> file,
                                                started |-> << >>, soffice |-> "none",
                                                pages |-> << >>]]
                /\ reply' = [reply EXCEPT ![id] = CatchResponse(WriteError(id, input))]
  /\ UNCHANGED << timers, scheduled, resp, inflight, running, page >>

\* The files soffice leaves in the session directory.
SofficeWrites(outcome) ==
  CASE outcome = "pdf" -> {PdfName}
    [] outcome = "other_pdf" -> {OtherPdfName}
    [] OTHER -> {}

\* Lines 52-58, on the files and a listing of the session directory:
\* [threw, files]. presentation.pdf is there and nothing is done; or the
\* first listed .pdf file is renamed to it; or there is none and the
\* function throws.
NoFallback(files, listing) == [threw |-> PdfName \notin files, files |-> files]
LocatePdf(files, listing) ==
  IF PdfName \in files THEN [threw |-> FALSE, files |-> files]
  ELSE LET pdfFiles == SelectSeq(listing, LAMBDA f : EndsWith(f, DOT_PDF))
       IN IF Len(pdfFiles) = 0 THEN [threw |-> TRUE, files |-> files]
          ELSE [threw |-> FALSE, files |-> (files \ {pdfFiles[1]}) \cup {PdfName}]

\* soffice's promise settles; on success lines 52-58 look for the PDF, and
\* pdftoppm is started.
SofficeExit(id, outcome) ==
  /\ running
  /\ job[id].pc = "soffice"
  /\ LET input == SafeFilename(job[id].file.originalname)
         files1 == fs[id].files \cup SofficeWrites(outcome)
     IN IF outcome = "throws"
        THEN /\ Respond(id, CatchResponse(SofficeError(id, input)))
             /\ UNCHANGED fs
        ELSE \E listing \in ReaddirSync(files1) :
               LET located == LocatePdf(files1, listing)
               IN /\ fs' = [fs EXCEPT ![id].files = located.files]
                  /\ IF located.threw
                     THEN /\ reply' = [reply EXCEPT ![id] = CatchResponse(NoPdfError)]
                          /\ job' = [job EXCEPT ![id].pc = "responded", ![id].soffice = outcome]
                     ELSE /\ job' = [job EXCEPT ![id].pc = "pdftoppm", ![id].soffice = outcome,
                                                ![id].started = Append(@, "pdftoppm")]
                          /\ UNCHANGED reply
  /\ UNCHANGED << timers, scheduled, resp, inflight, running, page >>

\* readdirSync(sessionDir).filter(.png).sort(numeric), lines 67-73.
ListImages(listing) == SortNumeric(FilterPng(listing))

\* imageFiles.map((filename, index) => ({ slideNumber: index + 1, ... }))
Slides(id, imageFiles) ==
  [i \in 1..Len(imageFiles) |->
     [slideNumber |-> i, filename |-> imageFiles[i],
      url |-> [sessionId |-> id, filename |-> imageFiles[i]]]]

NoImagesResponse ==
  ErrorResponse(500, << Lit("Conversion produced no images. The file may be corrupt or empty.") >>)

\* res.json({ sessionId, totalSlides, originalFilename, slides })
ConversionResult(id, file, slides) ==
  [status |-> 200,
   body |-> [sessionId |-> id, totalSlides |-> Len(slides),
             originalFilename |-> file.originalname, slides |-> slides]]

\* pdftoppm's promise rejects: the catch block answers.
PdftoppmFails(id) ==
  /\ running
  /\ job[id].pc = "pdftoppm"
  /\ reply' = [reply EXCEPT ![id] = CatchResponse(PdftoppmError(id))]
  /\ job' = [job EXCEPT ![id].pc = "responded", ![id].soffice = "none"]
  /\ UNCHANGED << fs, timers, scheduled, resp, inflight, running, page >>

\* pdftoppm's promise resolves with n pages written: the rest of
\* convertPptxToImages (listing, sort, the two unlinks) and of the handler
\* (zero-image branch, slides, setTimeout, res.json).
PdftoppmExit(id, n, padded) ==
  /\ running
  /\ job[id].pc = "pdftoppm"
  /\ LET input == SafeFilename(job[id].file.originalname)
         pages == [k \in 1..n |-> PageName(k, n, padded)]
         files1 == fs[id].files \cup PageFiles(n, padded)
         noInput == UnlinkSync(files1, input)
         noPdf == UnlinkSync(noInput.files, PdfName)
         after == [fs EXCEPT ![id].files = noPdf.files]
     IN \E listing \in ReaddirSync(files1) :
          LET imageFiles == ListImages(listing)
          IN /\ job' = [job EXCEPT ![id].pc = "responded", ![id].soffice = "none",
                                      ![id].pages = pages]
             /\ IF noInput.threw
                THEN /\ reply' = [reply EXCEPT ![id] = CatchResponse(UnlinkError(id, input))]
                     /\ fs' = [fs EXCEPT ![id].files = files1]
                     /\ UNCHANGED << timers, scheduled, running >>
                ELSE IF noPdf.threw
                THEN /\ reply' = [reply EXCEPT ![id] = CatchResponse(UnlinkError(id, PdfName))]
                     /\ fs' = after
                     /\ UNCHANGED << timers, scheduled, running >>
                ELSE IF Len(imageFiles) = 0
                THEN LET rm == RmSync(after, id, TRUE)
                     IN /\ fs' = rm.fs
                        /\ IF rm.threw
                           THEN reply' = [reply EXCEPT ![id] = CatchResponse(<< >>)]
                           ELSE reply' = [reply EXCEPT ![id] = NoImagesResponse]
                        /\ UNCHANGED << timers, scheduled, running >>
                ELSE /\ fs' = after
                     /\ timers' = [timers EXCEPT ![id] = RetentionHours]
                     /\ scheduled' = [scheduled EXCEPT ![id] = @ + 1]
                     /\ reply' = [reply EXCEPT ![id] =
                                    ConversionResult(id, job[id].file, Slides(id, imageFiles))]
                     /\ UNCHANGED running
  /\ UNCHANGED << resp, inflight, page >>

\* ------------------------------------------------------ deletion timer
\* An hour passes for every pending timer.
Tick ==
  /\ running
  /\ \E id \in SessionIds : timers[id] > 0
  /\ timers' = [id \in SessionIds |-> IF timers[id] > 0 THEN timers[id] - 1 ELSE timers[id]]
  /\ UNCHANGED << fs, job, reply, scheduled, resp, inflight, running, page >>

\* The setTimeout callback: fs.rmSync(sessionDir, { recursive, force }).
\* An exception it throws is uncaught and ends the process.
TimerFire(id) ==
  /\ running
  /\ timers[id] = 0
  /\ LET rm == RmSync(fs, id, TRUE)
     IN /\ fs' = rm.fs
        /\ running' = ~rm.threw
  /\ timers' = [timers EXCEPT ![id] = -1]
  /\ UNCHANGED << job, reply, scheduled, resp, inflight, page >>

\* -------------------------------------------------------- read requests
\* Identifiers a client may send: the real one, a well-formed one no session
\* has, one with an upper-case digit and a parent-directory reference.
ReqSessionIds == SessionIds \cup { << "b", "0", "-", "7" >>, << "3", "F" >>, << ".", "." >> }

\* File names a client may send: rasterizer names of both styles, the
\* stored input of a .png upload, a PDF, a traversal and a bare extension.
ReqFilenames ==
  { PageName(1, 1, FALSE), PageName(1, MaxPages, TRUE), PRESENTATION \o DOT_PNG, PdfName,
    << ".", ".", "/", "x" >> \o DOT_PNG, DOT_PNG }

Access(op, path) == [op |-> op, path |-> path]

\* The session a request names was created and its directory is removed
\* (kept with the request, to tell what it was answered about).
SessionGone(sessionId) ==
  /\ sessionId \in SessionIds
  /\ job[sessionId].pc = "responded"
  /\ ~fs[sessionId].exists

ReadResponse(endpoint, sessionId, filename, status, body, fsAccess, gone) ==
  [endpoint |-> endpoint, sessionId |-> sessionId, filename |-> filename,
   status |-> status, body |-> body, fsAccess |-> fsAccess, sessionGone |-> gone]

\* The guard of the image endpoint, line 128.
SlidePathOk(sessionId, filename) == ValidSessionId(sessionId) /\ ValidFilename(filename)

\* GET /api/slides/:sessionId/:filename up to res.sendFile, which reads the
\* file after the handler has returned.
GetSlide(sessionId, filename) ==
  /\ running
  /\ inflight = NoRead
  /\ IF ~SlidePathOk(sessionId, filename)
     THEN /\ resp' = ReadResponse("slides", sessionId, filename, 400,
                                  [message |-> << Lit("Invalid path") >>], {},
                                  SessionGone(sessionId))
          /\ UNCHANGED inflight
     ELSE IF ~FileExists(sessionId, filename)
     THEN /\ resp' = ReadResponse("slides", sessionId, filename, 404,
                                  [message |-> << Lit("Image not found") >>],
                                  {Access("existsSync", FilePath(sessionId, filename))},
                                  SessionGone(sessionId))
          /\ UNCHANGED inflight
     ELSE /\ inflight' = [endpoint |-> "slides", sessionId |-> sessionId,
                          filename |-> filename, entries |-> << >>,
                          sessionGone |-> SessionGone(sessionId)]
          /\ UNCHANGED resp
  /\ UNCHANGED << fs, job, reply, timers, scheduled, running, page >>

\* res.sendFile opens the file: it is streamed with status 200, or, when it
\* is gone by now, the ENOENT is passed on as a 404.
SendFileDone ==
  /\ running
  /\ inflight.endpoint = "slides"
  /\ LET sessionId == inflight.sessionId
         filename == inflight.filename
         accessed == {Access("existsSync", FilePath(sessionId, filename)),
                      Access("sendFile", FilePath(sessionId, filename))}
     IN IF FileExists(sessionId, filename)
        THEN resp' = ReadResponse("slides", sessionId, filename, 200,
                                  [file |-> FilePath(sessionId, filename)], accessed,
                                  inflight.sessionGone)
        ELSE resp' = ReadResponse("slides", sessionId, filename, 404,
                                  [message |-> << Lit("Not Found") >>], accessed,
                                  inflight.sessionGone)
  /\ inflight' = NoRead
  /\ UNCHANGED << fs, job, reply, timers, scheduled, running, page >>

\* `slide-${String(i + 1).padStart(3, "0")}.png`
EntryName(i) == SLIDE \o << "-" >> \o PadStart(NumberToString(i), 3) \o DOT_PNG

\* files.forEach((f, i) => archive.file(path.join(sessionDir, f), { name }))
ArchiveEntries(files) == [i \in 1..Len(files) |-> [name |-> EntryName(i), file |-> files[i]]]

\* readdirSync(sessionDir).filter(.png).sort(), line 150.
ListArchiveFiles(listing) == SortDefault(FilterPng(listing))

\* GET /api/download-all/:sessionId up to archive.finalize(); the entries
\* are read and streamed after the handler has returned.
GetArchive(sessionId) ==
  /\ running
  /\ inflight = NoRead
  /\ IF ~ValidSessionId(sessionId)
     THEN /\ resp' = ReadResponse("download-all", sessionId, << >>, 400,
                                  [message |-> << Lit("Invalid session ID") >>], {},
                                  SessionGone(sessionId))
          /\ UNCHANGED inflight
     ELSE IF ~DirExists(sessionId)
     THEN /\ resp' = ReadResponse("download-all", sessionId, << >>, 404,
                                  [message |-> << Lit("Session not found or expired") >>],
                                  {Access("existsSync", DirPath(sessionId))},
                                  SessionGone(sessionId))
          /\ UNCHANGED inflight
     ELSE \E listing \in ReaddirSync(fs[sessionId].files) :
            LET files == ListArchiveFiles(listing)
            IN IF Len(files) = 0
               THEN /\ resp' = ReadResponse("download-all", sessionId, << >>, 404,
                                            [message |-> << Lit("No images found") >>],
                                            {Access("existsSync", DirPath(sessionId)),
                                             Access("readdirSync", DirPath(sessionId))},
                                            SessionGone(sessionId))
                    /\ UNCHANGED inflight
               ELSE /\ inflight' = [endpoint |-> "download-all", sessionId |-> sessionId,
                                    filename |-> << >>, entries |-> ArchiveEntries(files),
                                    sessionGone |-> SessionGone(sessionId)]
                    /\ UNCHANGED resp
  /\ UNCHANGED << fs, job, reply, timers, scheduled, running, page >>

\* The archive stream ends: every queued file was read and the zip is
\* complete; or a file was gone and archiver either skipped it with a
\* "warning" (status 200, entries missing) or emitted "error" (a 500 when
\* no header had been sent, otherwise the stream just stops).
ArchiveDone(headersSent) ==
  /\ running
  /\ inflight.endpoint = "download-all"
  /\ LET sessionId == inflight.sessionId
         entries == inflight.entries
         accessed == {Access("existsSync", DirPath(sessionId)),
                      Access("readdirSync", DirPath(sessionId))}
                       \cup {Access("read", FilePath(sessionId, entries[i].file)) :
                               i \in 1..Len(entries)}
     IN IF \A i \in 1..Len(entries) : FileExists(sessionId, entries[i].file)
        THEN resp' = ReadResponse("download-all", sessionId, << >>, 200,
                                  [entries |-> entries, complete |-> TRUE], accessed,
                                  inflight.sessionGone)
        ELSE IF headersSent
        THEN resp' = ReadResponse("download-all", sessionId, << >>, 200,
                                  [entries |-> << >>, complete |-> FALSE], accessed,
                                  inflight.sessionGone)
        ELSE resp' = ReadResponse("download-all", sessionId, << >>, 500,
                                  [message |-> << Lit("Failed to create ZIP") >>], accessed,
                                  inflight.sessionGone)
  /\ inflight' = NoRead
  /\ UNCHANGED << fs, job, reply, timers, scheduled, running, page >>

\* ---------------------------------------------------------------- Next
Next ==
  \/ \E file \in Uploads : UploadRejected(file)
  \/ ConvertNoFile
  \/ \E id \in SessionIds, file \in Uploads, writeOk \in BOOLEAN : ConvertBegin(id, file, writeOk)
  \/ \E id \in SessionIds, outcome \in SofficeOutcomes : SofficeExit(id, outcome)
  \/ \E id \in SessionIds : PdftoppmFails(id)
  \/ \E id \in SessionIds, n \in PageCounts, padded \in BOOLEAN : PdftoppmExit(id, n, padded)
  \/ Tick
  \/ \E id \in SessionIds : TimerFire(id)
  \/ \E sessionId \in ReqSessionIds, filename \in ReqFilenames : GetSlide(sessionId, filename)
  \/ SendFileDone
  \/ \E sessionId \in ReqSessionIds : GetArchive(sessionId)
  \/ \E headersSent \in BOOLEAN : ArchiveDone(headersSent)

Spec == Init /\ [][Next]_vars

\* The event loop runs every due callback and time passes: weak fairness on
\* each step the process takes by itself.
LiveSpec ==
  /\ Spec
  /\ WF_vars(Tick)
  /\ \A id \in SessionIds : WF_vars(TimerFire(id))

\* ------------------------------------------------------- browser page
\* file.name.match(/\.(pptx|ppt)$/i) in handleFile.
ClientAccepts(name) ==
  EndsWith(ToLowerCase(name), DOT_PPTX) \/ EndsWith(ToLowerCase(name), DOT_PPT)

\* The bodies POST /api/convert can answer a file with: res.json of one to
\* MaxPages page images.
ClientResults(file) ==
  { ConversionResult(id, file, Slides(id, ListImages(Ascending(PageFiles(n, TRUE))))).body :
      id \in SessionIds, n \in 1..MaxPages }

\* The last two lightbox calls.
Called(calls, op, from) ==
  LET call == [op |-> op, from |-> from]
  IN IF Len(calls) < 2 THEN Append(calls, call) ELSE << calls[2], call >>

\* handleFile: a file with a presentation's name is sent off.
HandleFile(file) ==
  /\ page.appState = "idle"
  /\ ClientAccepts(file.originalname)
  /\ page' = [page EXCEPT !.selectedFile = file, !.appState = "uploading"]
  /\ UNCHANGED server

\* onSuccess: setResult(data); setAppState("done").
OnSuccess(data) ==
  /\ page.appState = "uploading"
  /\ page' = [page EXCEPT !.result = data, !.appState = "done"]
  /\ UNCHANGED server

\* onError: setAppState("idle").
OnError ==
  /\ page.appState = "uploading"
  /\ page' = [page EXCEPT !.appState = "idle"]
  /\ UNCHANGED server

\* handleReset, the "new conversion" button of the done page.
HandleReset ==
  /\ page.appState = "done"
  /\ page' = NoPage
  /\ UNCHANGED server

\* openLightbox(slide.slideNumber), the click on a slide card.
OpenLightbox(k) ==
  /\ page.appState = "done"
  /\ k \in 1..Len(page.result.slides)
  /\ page' = [page EXCEPT !.lightboxSlide = page.result.slides[k].slideNumber,
                          !.calls = Called(@, "openLightbox", page.lightboxSlide)]
  /\ UNCHANGED server

\* closeLightbox
CloseLightbox ==
  /\ page.appState = "done"
  /\ page' = [page EXCEPT !.lightboxSlide = NoSlide,
                          !.calls = Called(@, "closeLightbox", page.lightboxSlide)]
  /\ UNCHANGED server

\* lightboxSlide > 1 ? lightboxSlide - 1 : result.totalSlides
PrevSlideNumber(lightboxSlide, totalSlides) ==
  IF lightboxSlide > 1 THEN lightboxSlide - 1 ELSE totalSlides

\* lightboxSlide < result.totalSlides ? lightboxSlide + 1 : 1
NextNoWrap(lightboxSlide, totalSlides) == lightboxSlide + 1
NextSlideNumber(lightboxSlide, totalSlides) ==
  IF lightboxSlide < totalSlides THEN lightboxSlide + 1 ELSE 1

\* prevSlide: nothing while the lightbox is closed or there is no result.
PrevSlide ==
  /\ page.appState = "done"
  /\ page' = [page EXCEPT
       !.lightboxSlide = IF page.lightboxSlide = NoSlide \/ page.result = NoResult THEN @
                         ELSE PrevSlideNumber(@, page.result.totalSlides),
       !.calls = Called(@, "prevSlide", page.lightboxSlide)]
  /\ UNCHANGED server

\* nextSlide: nothing while the lightbox is closed or there is no result.
NextSlide ==
  /\ page.appState = "done"
  /\ page' = [page EXCEPT
       !.lightboxSlide = IF page.lightboxSlide = NoSlide \/ page.result = NoResult THEN @
                         ELSE NextSlideNumber(@, page.result.totalSlides),
       !.calls = Called(@, "nextSlide", page.lightboxSlide)]
  /\ UNCHANGED server

ClientNext ==
  \/ \E file \in Uploads : HandleFile(file)
  \/ \E data \in ClientResults(page.selectedFile) : OnSuccess(data)
  \/ OnError
  \/ HandleReset
  \/ \E k \in 1..MaxPages : OpenLightbox(k)
  \/ CloseLightbox
  \/ PrevSlide
  \/ NextSlide

\* The page by itself, whatever the server answers.
ClientSpec == Init /\ [][ClientNext]_vars

\* =============================================================== claims
Responded(id) == job[id].pc = "responded"
Succeeded(id) == Responded(id) /\ reply[id].status = 200
Failed(id) == Responded(id) /\ reply[id].status = 500
StoredInput(id) == SafeFilename(job[id].file.originalname)
SlideFiles(id) == [k \in 1..Len(reply[id].body.slides) |-> reply[id].body.slides[k].filename]
IndexOf(s, x) == CHOOSE i \in 1..Len(s) : s[i] = x
Listed(s, x) == \E i \in 1..Len(s) : s[i] = x

\* C1: once a convert request that created its session directory has been
\* answered with an error, that directory no longer exists.
C1_FailureDeletesSessionDir ==
  \A id \in SessionIds : Failed(id) => ~fs[id].exists

\* C2: a successful conversion whose rasterization yielded N >= 1 pages
\* reports totalSlides = N, and its k-th slide has slideNumber k and is the
\* image of page k.
C2_SlidesAreThePages ==
  \A id \in SessionIds :
    (Succeeded(id) /\ Len(job[id].pages) >= 1) =>
      /\ reply[id].body.totalSlides = Len(job[id].pages)
      /\ Len(reply[id].body.slides) = Len(job[id].pages)
      /\ \A k \in 1..Len(reply[id].body.slides) :
           /\ reply[id].body.slides[k].slideNumber = k
           /\ k <= Len(job[id].pages)
           /\ reply[id].body.slides[k].filename = job[id].pages[k]

\* C3: the slides of a result are in ascending order of the number in their
\* file names; slide-10 comes after slide-9 and never between slide-1 and
\* slide-2.
C3_NumericOrder ==
  \A id \in SessionIds :
    Succeeded(id) =>
      LET f == SlideFiles(id)
          one == PageName(1, 1, FALSE)
          two == PageName(2, 2, FALSE)
          nine == PageName(9, 9, FALSE)
          ten == PageName(10, 1, FALSE)
      IN /\ \A i, j \in 1..Len(f) : i < j => SlideNum(f[i]) <= SlideNum(f[j])
         /\ (Listed(f, nine) /\ Listed(f, ten)) => IndexOf(f, nine) < IndexOf(f, ten)
         /\ (Listed(f, one) /\ Listed(f, two) /\ Listed(f, ten)) =>
              ~(IndexOf(f, one) < IndexOf(f, ten) /\ IndexOf(f, ten) < IndexOf(f, two))

\* C3 witness: a result that lists slide-1.png ... slide-10.png.
C3_Witness ==
  \E id \in SessionIds :
    /\ Succeeded(id)
    /\ Listed(SlideFiles(id), PageName(10, 1, FALSE))
    /\ Listed(SlideFiles(id), PageName(9, 9, FALSE))
    /\ Listed(SlideFiles(id), PageName(2, 2, FALSE))

\* The characters the claims allow in a session identifier and in a file
\* name, written out.
ClaimIdChars ==
  {"0", "1", "2", "3", "4", "5", "6", "7", "8", "9", "a", "b", "c", "d", "e", "f", "-"}
BadIdChar(sessionId) == \E i \in 1..Len(sessionId) : sessionId[i] \notin ClaimIdChars
BadNameChar(filename) == \E i \in 1..Len(filename) : filename[i] \in {"/"}
BadName(filename) == BadNameChar(filename) \/ ~EndsWith(filename, DOT_PNG)
ReadEndpoints == {"slides", "download-all"}

\* C4: a read request with a malformed session identifier, or an image
\* request with a malformed file name, is answered 400 with no filesystem
\* call made, and every filesystem call of a read request is on a path built
\* from a well-formed identifier and file name.
C4_RejectedBeforeFilesystem ==
  /\ (/\ resp.endpoint \in ReadEndpoints
      /\ \/ BadIdChar(resp.sessionId)
         \/ (resp.endpoint = "slides" /\ BadName(resp.filename)))
       => (resp.status = 400 /\ resp.fsAccess = {})
  /\ resp.endpoint \in ReadEndpoints =>
       \A a \in resp.fsAccess :
         /\ ~BadIdChar(a.path.sessionId)
         /\ resp.endpoint = "slides" => (a.path.name = resp.filename /\ ~BadName(a.path.name))
  /\ inflight.endpoint \in ReadEndpoints =>
       /\ ~BadIdChar(inflight.sessionId)
       /\ inflight.endpoint = "slides" => ~BadName(inflight.filename)

\* C4 witness: a traversal file name sent for a live session is turned away
\* with 400.
C4_Witness ==
  /\ resp.endpoint = "slides"
  /\ resp.status = 400
  /\ resp.sessionId \in SessionIds
  /\ fs[resp.sessionId].exists
  /\ BadNameChar(resp.filename)
  /\ resp.fsAccess = {}

\* C5: a well-formed image or archive request made for a session whose
\* directory has been removed is answered 404, starts no stream, and the
\* process keeps running.
C5_GoneSessionIs404 ==
  /\ running
  /\ ~inflight.sessionGone
  /\ (/\ resp.endpoint \in ReadEndpoints
      /\ resp.sessionGone
      /\ ValidSessionId(resp.sessionId)
      /\ resp.endpoint = "slides" => ValidFilename(resp.filename))
       => resp.status = 404

\* C5 witness: an image the result listed is asked for again after the
\* timer has removed the session, and the answer is 404.
C5_Witness ==
  /\ resp.endpoint = "slides"
  /\ resp.sessionGone
  /\ resp.status = 404
  /\ resp.sessionId \in SessionIds
  /\ Succeeded(resp.sessionId)
  /\ Listed(SlideFiles(resp.sessionId), resp.filename)
  /\ running

\* C6: a conversion that ran the converter and ended with no page image
\* (zero-page or corrupt upload) is answered 500 with a message only, its
\* session directory is gone, and no deletion timer was set for it.
C6_ZeroImagesFailAndClean ==
  \A id \in SessionIds :
    (Responded(id) /\ Len(job[id].started) >= 1 /\ job[id].pages = << >>) =>
      /\ reply[id].status = 500
      /\ DOMAIN reply[id].body = {"message"}
      /\ ~fs[id].exists
      /\ scheduled[id] = 0
      /\ timers[id] = -1

\* C7: a complete archive of a live session with N final images has N
\* entries slide-001.png ... slide-NNN.png, entry k holding the file the
\* ConversionResult lists as slide k.
C7_ArchiveMatchesResult ==
  (/\ resp.endpoint = "download-all"
   /\ resp.status = 200
   /\ resp.sessionId \in SessionIds
   /\ Succeeded(resp.sessionId)
   /\ resp.body.complete)
    => LET id == resp.sessionId
           entries == resp.body.entries
       IN /\ Len(entries) = Len(job[id].pages)
          /\ Len(entries) = Len(SlideFiles(id))
          /\ \A k \in 1..Len(entries) :
               /\ entries[k].name =
                    SLIDE \o << "-" >> \o PadStart(NumberToString(k), 3) \o DOT_PNG
               /\ k <= Len(SlideFiles(id))
               /\ entries[k].file = SlideFiles(id)[k]

\* The messages an error response may carry.
GenericMessages ==
  { << Lit("Conversion failed") >>,
    << Lit("Conversion produced no images. The file may be corrupt or empty.") >>,
    << Lit("PDF conversion failed - no PDF output produced") >>,
    << Lit("Failed to create ZIP") >> }
Generic(message) ==
  /\ message \in GenericMessages
  /\ \A i \in 1..Len(message) : message[i].kind = "lit"

\* C8: every status 500 response carries a message of the fixed set, with
\* no filesystem path, executable path or command line in it.
C8_ErrorMessagesAreGeneric ==
  /\ \A id \in SessionIds : Failed(id) => Generic(reply[id].body.message)
  /\ (resp.endpoint \in ReadEndpoints /\ resp.status = 500) => Generic(resp.body.message)

\* C9: a successful conversion has called setTimeout exactly once, with the
\* full retention window; a pending timer only counts down and is never
\* cancelled or set back, whatever is read; its callback removes the
\* directory and never ends the process, so the directory of a successful
\* session is eventually gone.
C9_TimerDeletesSession ==
  /\ [](\A id \in SessionIds :
          /\ Succeeded(id) => scheduled[id] = 1
          /\ scheduled[id] <= 1
          /\ (Succeeded(id) /\ fs[id].exists) => timers[id] >= 0
          /\ ~RmSync(fs, id, TRUE).threw)
  /\ []running
  /\ [][\A id \in SessionIds :
          /\ (~Succeeded(id) /\ Succeeded(id)') => timers'[id] = RetentionHours
          /\ timers[id] > 0 => (timers'[id] \in {timers[id], timers[id] - 1} /\ fs'[id] = fs[id])
          /\ timers[id] = 0 => \/ (timers'[id] = 0 /\ fs'[id] = fs[id])
                               \/ (timers'[id] = -1 /\ ~fs'[id].exists)]_vars
  /\ \A id \in SessionIds : Succeeded(id) ~> ~fs[id].exists

\* C9 witness: the timer of a successful session has run out and fired, and
\* the directory is gone.
C9_Witness ==
  \E id \in SessionIds :
    /\ Succeeded(id)
    /\ scheduled[id] = 1
    /\ timers[id] = -1
    /\ ~fs[id].exists
    /\ running

\* C10: while the directory of a successful session exists it holds only
\* the page images: neither the stored input nor presentation.pdf nor any
\* other file.
C10_OnlyImagesRemain ==
  \A id \in SessionIds :
    (Succeeded(id) /\ fs[id].exists) =>
      /\ StoredInput(id) \notin fs[id].files
      /\ PdfName \notin fs[id].files
      /\ \A f \in fs[id].files : IsPng(f) /\ Listed(job[id].pages, f)

\* C10 witness: a live successful session whose directory holds all
\* MaxPages page images and nothing else.
C10_Witness ==
  \E id \in SessionIds :
    /\ Succeeded(id)
    /\ fs[id].exists
    /\ Cardinality(fs[id].files) = MaxPages

\* What the session directory held when soffice came back: the stored
\* input and what soffice wrote.
AfterSoffice(id) == {StoredInput(id)} \cup SofficeWrites(job[id].soffice)
HasPdf(files) == \E f \in files : EndsWith(f, DOT_PDF)

\* C11: the two programs of a conversion run in order and at most once
\* each: pdftoppm is started only after soffice came back without an
\* error, with presentation.pdf in place, and never when soffice failed or
\* produced no PDF.
C11_StepsInOrder ==
  \A id \in SessionIds :
    /\ job[id].started \in { << >>, << "soffice" >>, << "soffice", "pdftoppm" >> }
    /\ job[id].pc = "soffice" => job[id].started = << "soffice" >>
    /\ job[id].pc = "pdftoppm" =>
         /\ job[id].started = << "soffice", "pdftoppm" >>
         /\ PdfName \in fs[id].files
         /\ HasPdf(SofficeWrites(job[id].soffice))
    /\ (Failed(id) /\ reply[id].body.message
                        \in { SofficeError(id, StoredInput(id)), NoPdfError }) =>
         job[id].started = << "soffice" >>

\* The part of C11 that the upload's name cannot disturb: order, no second
\* run, and no pdftoppm after a failure of the PDF step.
C11_OrderAndNoRetry ==
  \A id \in SessionIds :
    /\ job[id].started \in { << >>, << "soffice" >>, << "soffice", "pdftoppm" >> }
    /\ job[id].pc = "soffice" => job[id].started = << "soffice" >>
    /\ job[id].pc = "pdftoppm" =>
         /\ job[id].started = << "soffice", "pdftoppm" >>
         /\ PdfName \in fs[id].files
    /\ (Failed(id) /\ reply[id].body.message
                        \in { SofficeError(id, StoredInput(id)), NoPdfError }) =>
         job[id].started = << "soffice" >>

\* C13: once soffice has come back, a present presentation.pdf leaves the
\* directory as it is; an absent one is replaced by renaming a .pdf file
\* of the directory, and the conversion goes on; with no .pdf file at all
\* the conversion fails with the no-PDF error and the directory is left
\* as it is.
C13_PdfFallback ==
  \A id \in SessionIds :
    job[id].soffice # "none" =>
      LET before == AfterSoffice(id)
      IN /\ PdfName \in before =>
              /\ job[id].pc = "pdftoppm"
              /\ fs[id].files = before
         /\ (PdfName \notin before /\ HasPdf(before)) =>
              /\ job[id].pc = "pdftoppm"
              /\ \E f \in before :
                   /\ EndsWith(f, DOT_PDF)
                   /\ fs[id].files = (before \ {f}) \cup {PdfName}
         /\ ~HasPdf(before) =>
              /\ Failed(id)
              /\ reply[id].body.message = NoPdfError
              /\ job[id].started = << "soffice" >>
              /\ fs[id].files = before

\* C13 witness: soffice wrote its PDF under another name, the file now
\* carries the expected name and pdftoppm has been started.
C13_Witness ==
  \E id \in SessionIds :
    /\ job[id].pc = "pdftoppm"
    /\ job[id].soffice = "other_pdf"
    /\ PdfName \notin AfterSoffice(id)
    /\ PdfName \in fs[id].files
    /\ OtherPdfName \notin fs[id].files

\* The deletion timer of the session has fired.
TimerFired(id) == id \in SessionIds /\ scheduled[id] = 1 /\ timers[id] = -1

\* A read request that passed its existence check ends now, after the
\* timer has removed the directory of its session.
LosesRace(endpoint) ==
  /\ inflight.endpoint = endpoint
  /\ inflight' = NoRead
  /\ TimerFired(inflight.sessionId)
  /\ ~DirExists(inflight.sessionId)

\* C12: an image or archive request that was past its existence check when
\* the deletion timer fired is answered 404, and the server keeps running.
C12_RaceLoserGets404 ==
  [][ (\E endpoint \in ReadEndpoints : LosesRace(endpoint)) =>
        (resp'.status = 404 /\ running') ]_vars

\* The image endpoint's half of C12.
C12_SlideLoserGets404 ==
  [][ LosesRace("slides") => (resp'.status = 404 /\ running') ]_vars

\* C14: every slide of a successful result is a page image pdftoppm wrote,
\* is not the stored input, has a url the image endpoint accepts, and is in
\* the session directory for as long as that exists.
C14_SlidesAreFetchable ==
  \A id \in SessionIds :
    Succeeded(id) =>
      \A k \in 1..Len(reply[id].body.slides) :
        LET slide == reply[id].body.slides[k]
        IN /\ Listed(job[id].pages, slide.filename)
           /\ slide.filename # StoredInput(id)
           /\ SlidePathOk(slide.url.sessionId, slide.url.filename)
           /\ fs[id].exists => FileExists(slide.url.sessionId, slide.url.filename)

\* result?.slides.find((s) => s.slideNumber === lightboxSlide) finds one.
CurrentLightboxSlide ==
  \E k \in 1..Len(page.result.slides) :
    page.result.slides[k].slideNumber = page.lightboxSlide

\* C15: the lightbox of the page is closed or shows a slide of the result;
\* nextSlide goes one up and from the last slide to the first, prevSlide
\* one down and from the first to the last, neither does anything while
\* the lightbox is closed, and prevSlide after nextSlide is back where
\* nextSlide started.
C15_LightboxStaysOnASlide ==
  LET N == page.result.totalSlides
      now == page.lightboxSlide
      n == Len(page.calls)
      last == page.calls[n]
  IN /\ now = NoSlide \/ (now \in 1..N /\ CurrentLightboxSlide)
     /\ (n > 0 /\ last.op = "nextSlide") =>
          now = IF last.from = NoSlide THEN NoSlide
                ELSE IF last.from = N THEN 1 ELSE last.from + 1
     /\ (n > 0 /\ last.op = "prevSlide") =>
          now = IF last.from = NoSlide THEN NoSlide
                ELSE IF last.from = 1 THEN N ELSE last.from - 1
     /\ (n = 2 /\ last.op = "prevSlide" /\ page.calls[1].op = "nextSlide") =>
          now = page.calls[1].from

\* C15 witness: nextSlide has wrapped from the last of MaxPages slides to
\* the first, and prevSlide has gone back to the last.
C15_Witness ==
  /\ page.result.totalSlides = MaxPages
  /\ Len(page.calls) = 2
  /\ page.calls[1] = [op |-> "nextSlide", from |-> MaxPages]
  /\ page.calls[2] = [op |-> "prevSlide", from |-> 1]
  /\ page.lightboxSlide = MaxPages

====
